---- MODULE Spec2Model ----
(***************************************************************************)
(* Hybrid retrieval and ingestion engine of the RCA service:               *)
(*   indexer/embeddings.py     chunking pipeline (chunk, main)             *)
(*   retriever/ingest_new.py   reconciliation (ingest_new_tickets)         *)
(*   retriever/hybrid_search.py  schema bootstrap and hybrid search        *)
(*                                                                         *)
(* A text is a sequence of tokens: the text is the tokens joined by single *)
(* blanks, and the empty token "" stands for an additional run of          *)
(* whitespace, so that <<"", "A", "", "B">> is the string " A  B".         *)
(***************************************************************************)
EXTENDS Integers, Sequences, FiniteSets, TLC

(* ------------------------------ bounds --------------------------------- *)
\* longest text handed to chunk in the chunking specification
MaxWords == 10
\* largest window size / overlap tried in the chunking specification
MaxSize == 5
MaxOverlap == 5
\* the least window size and overlap chunk is called with
MinSize == 0 - 1

(* --------------------------- small helpers ----------------------------- *)
Min(a, b) == IF a < b THEN a ELSE b
Max(a, b) == IF a > b THEN a ELSE b
Abs(a) == IF a < 0 THEN 0 - a ELSE a

\* the alphabet of words the documents are written in
Alphabet == <<"A", "B", "C", "D", "E", "F", "G", "H", "I", "J">>

(* ------------------------ indexer/embeddings.py ------------------------ *)
\* str.split(): the words of a text, whitespace runs dropped
Split(text) == SelectSeq(text, LAMBDA t : t # "")

\* Python slice s[a:b] for a >= 0 and any integer b (a negative b counts
\* from the end, both ends are clipped to the sequence)
PySlice(s, a, b) ==
    LET e0 == IF b < 0 THEN Max(0, Len(s) + b) ELSE Min(b, Len(s))
    IN  IF a >= e0 THEN << >> ELSE SubSeq(s, a + 1, e0)

\* a stride that takes the distance between size and overlap
StrideAbs(size, overlap) == Max(1, Abs(size - overlap))

\* the stride of the window: i += max(1, size - overlap)
Stride(size, overlap) == Max(1, size - overlap)

RECURSIVE ChunkFrom(_, _, _, _)
ChunkFrom(words, i, size, overlap) ==
    IF i < Len(words)
    THEN <<PySlice(words, i, i + size)>>
         \o ChunkFrom(words, i + Stride(size, overlap), size, overlap)
    ELSE << >>

\* a chunk whose loop runs once more, after the last word
chunkInclusive(text, size, overlap) ==
    IF Split(text) = << >>
    THEN [outcome |-> "ok", chunks |-> << >>]
    ELSE [outcome |-> "ok",
          chunks |-> Append(ChunkFrom(Split(text), 0, size, overlap), << >>)]

\* chunk(text, size, overlap): the list of chunks the generator yields, or
\* the outcome "ConfigError" if the call is rejected
chunk(text, size, overlap) ==
    IF Split(text) = << >>
    THEN [outcome |-> "ok", chunks |-> << >>]
    ELSE [outcome |-> "ok", chunks |-> ChunkFrom(Split(text), 0, size, overlap)]

\* build_text(record): the text fields joined and stripped; the records of
\* the model carry their text in the single field "text"
Strip(text) ==
    LET idx == {i \in 1..Len(text) : text[i] # ""}
    IN  IF idx = {} THEN << >>
        ELSE SubSeq(text, CHOOSE i \in idx : \A j \in idx : i <= j,
                          CHOOSE i \in idx : \A j \in idx : i >= j)

build_text(r) == Strip(r.text)

\* LEFT(s, n) / s[:n], the length counted in tokens
Left(s, n) == SubSeq(s, 1, Min(n, Len(s)))

\* make_snippet(s, n=220): whitespace-normalised prefix
SnippetN == 220
make_snippet(s) == Left(Split(s), SnippetN)

\* hashlib.sha256(ch).hexdigest(): a digest that tells all chunk texts of
\* the model apart (positional code over the alphabet, no zero digit)
WordCode(w) == CHOOSE i \in 1..Len(Alphabet) : Alphabet[i] = w
HashBase == Len(Alphabet) + 1
RECURSIVE sha256(_)
sha256(ch) ==
    IF ch = << >> THEN 0
    ELSE sha256(SubSeq(ch, 1, Len(ch) - 1)) * HashBase + WordCode(ch[Len(ch)])

\* model.encode([text], normalize_embeddings=True): the embedding model is
\* an opaque deterministic function of the text; vectors are points of a
\* line and <-> is the distance on it
EmbRange == 7
RECURSIVE encode(_)
encode(text) ==
    IF Split(text) = << >> THEN 0
    ELSE LET w == Split(text)
         IN (encode(SubSeq(w, 1, Len(w) - 1)) + WordCode(w[Len(w)]) * Len(w)) % EmbRange

\* SQL NULL in a text column, in text_hash and in snippet
NULL == "NULL"
NoHash == 0 - 1
NoSnippet == << >>

\* ensure_schema(conn, dim): CREATE TABLE IF NOT EXISTS documents
\* (... embedding vector(dim)); 0 stands for "no table"
ensure_schema(tDim, dim) ==
    [outcome |-> "ok", tableDim |-> IF tDim = 0 THEN dim ELSE tDim]

\* a conflict check that looks at the newest row only
HasHashNewest(tbl, h) == Len(tbl) > 0 /\ tbl[Len(tbl)].text_hash = h

\* INSERT ... ON CONFLICT (text_hash) DO NOTHING
HasHash(tbl, h) == \E i \in 1..Len(tbl) : tbl[i].text_hash = h
\* an INSERT without the ON CONFLICT clause on a table without the constraint
UpsertAlways(tbl, row) == Append(tbl, row)

UpsertChunk(tbl, row) == IF HasHash(tbl, row.text_hash) THEN tbl ELSE Append(tbl, row)

ChunkRow(r, snip, ch) ==
    [issue_key |-> r.issue_key, service |-> r.service, snippet |-> snip,
     text_chunk |-> ch, text_hash |-> sha256(ch), embedding |-> encode(ch)]

\* the loop "for ch in chunk(text_full)" of main
RECURSIVE InsertChunks(_, _, _, _)
InsertChunks(tbl, r, snip, chunks) ==
    IF chunks = << >> THEN tbl
    ELSE InsertChunks(UpsertChunk(tbl, ChunkRow(r, snip, Head(chunks))),
                      r, snip, Tail(chunks))

\* the loop "for r in arr" of main; accepts says that the table takes
\* vectors of the model's dimension: otherwise the INSERT of the first chunk
\* fails and ends the run (autocommit: the rows written so far stay)
RECURSIVE IngestDocs(_, _, _, _, _)
IngestDocs(tbl, arr, size, overlap, accepts) ==
    IF arr = << >> THEN [outcome |-> "ok", rows |-> tbl]
    ELSE LET r == Head(arr)
             text_full == build_text(r)
             c == chunk(text_full, size, overlap)
         IN  IF text_full = << >>
             THEN IngestDocs(tbl, Tail(arr), size, overlap, accepts)
             ELSE IF c.outcome # "ok"
             THEN [outcome |-> c.outcome, rows |-> tbl]
             ELSE IF c.chunks # << >> /\ ~accepts
             THEN [outcome |-> "StoreError", rows |-> tbl]
             ELSE IngestDocs(InsertChunks(tbl, r, make_snippet(text_full), c.chunks),
                             Tail(arr), size, overlap, accepts)

\* main() of the indexer. main calls chunk with its defaults (size=1800,
\* overlap=250); the model hands it the window, so that documents of a few
\* words span several chunks
main(tbl, tDim, dim, arr, size, overlap) ==
    LET s == ensure_schema(tDim, dim)
        run == IngestDocs(tbl, arr, size, overlap, s.tableDim = dim)
    IN  IF s.outcome # "ok"
        THEN [outcome |-> s.outcome, rows |-> tbl, tableDim |-> tDim]
        ELSE [outcome |-> run.outcome, rows |-> run.rows, tableDim |-> s.tableDim]

(* ---------------------- retriever/ingest_new.py ------------------------ *)
\* str.strip() of an issue_key cell
StripKey(k) == CASE k = " K1" -> "K1" [] k = " " -> "" [] OTHER -> k

\* _load_csv_rows(): the (issue_key, text) pairs of the staged records,
\* stripped; records with an empty key or an empty text are dropped
RECURSIVE _load_csv_rows(_)
_load_csv_rows(recs) ==
    IF recs = << >> THEN << >>
    ELSE LET issue_key == StripKey(Head(recs).issue_key)
             text == Strip(Head(recs).text)
         IN  IF issue_key = "" \/ text = << >>
             THEN _load_csv_rows(Tail(recs))
             ELSE <<[issue_key |-> issue_key, text |-> text]>>
                  \o _load_csv_rows(Tail(recs))

\* a lookup that sees the rows the reconciliation wrote itself only
ExistingRawKeys(tbl) ==
    {tbl[i].issue_key : i \in {j \in 1..Len(tbl) : tbl[j].text_hash = NoHash}}

\* SELECT DISTINCT issue_key FROM documents
ExistingIssueKeys(tbl) == {tbl[i].issue_key : i \in 1..Len(tbl)}

\* a to_insert that skips nothing
ToInsertAll(loaded, existing_keys) == loaded

\* the tuples of to_insert: the loaded pairs whose key is not in existing_keys
ToInsert(loaded, existing_keys) ==
    SelectSeq(loaded, LAMBDA r : r.issue_key \notin existing_keys)

\* INSERT INTO documents (issue_key, text_chunk, embedding)
RawRow(r) ==
    [issue_key |-> r.issue_key, service |-> NULL, snippet |-> NoSnippet,
     text_chunk |-> r.text, text_hash |-> NoHash, embedding |-> encode(r.text)]

\* an insert that executes the statement for the first tuple only
InsertRawFirst(tbl, to_insert) ==
    IF to_insert = << >> THEN tbl ELSE Append(tbl, [issue_key |-> Head(to_insert).issue_key,
        service |-> NULL, snippet |-> NoSnippet, text_chunk |-> Head(to_insert).text,
        text_hash |-> NoHash, embedding |-> encode(Head(to_insert).text)])

RECURSIVE InsertRaw(_, _)
InsertRaw(tbl, to_insert) ==
    IF to_insert = << >> THEN tbl
    ELSE InsertRaw(Append(tbl, RawRow(Head(to_insert))), Tail(to_insert))

\* texts = [r["text"] for r in rows]; model.encode(texts): the texts handed
\* to the embedding model, those of all loaded pairs
EncodedTexts(loaded) == [i \in 1..Len(loaded) |-> loaded[i].text]

\* ingest_new_tickets(): one transaction, committed at the end and rolled
\* back (schema included) when a statement fails; encoded is what the
\* embedding model was called with, before the connection is opened
ingest_new_tickets(tbl, tDim, dim, recs) ==
    LET loaded == _load_csv_rows(recs)
        s == ensure_schema(tDim, dim)
        to_insert == ToInsert(loaded, ExistingIssueKeys(tbl))
        ret(outcome, result, after, d) ==
            [outcome |-> outcome, result |-> result, rows |-> after, tableDim |-> d,
             encoded |-> EncodedTexts(loaded)]
    IN  IF loaded = << >> THEN ret("ok", 0, tbl, tDim)
        ELSE IF s.outcome # "ok" THEN ret(s.outcome, 0, tbl, tDim)
        ELSE IF to_insert = << >> THEN ret("ok", 0, tbl, s.tableDim)
        ELSE IF s.tableDim # dim THEN ret("StoreError", 0, tbl, tDim)
        ELSE ret("ok", Len(to_insert), InsertRaw(tbl, to_insert), s.tableDim)

\* a connection block that keeps what was written when it is left by an
\* exception
ConnectionExitKeeps(committed, pending, raised) == pending

\* with psycopg.connect(DB_URL) as conn: the block commits when it is left
\* normally and rolls back when it is left by an exception
ConnectionExit(committed, pending, raised) ==
    IF raised THEN committed ELSE pending

\* ingest_new_tickets() when the store fails at the f-th INSERT of the loop,
\* 1 <= f <= len(to_insert): the f - 1 rows before it are written inside the
\* transaction, the exception leaves the connection block
ingest_store_failure(tbl, tDim, dim, recs, f) ==
    LET loaded == _load_csv_rows(recs)
        s == ensure_schema(tDim, dim)
        to_insert == ToInsert(loaded, ExistingIssueKeys(tbl))
        pending == [rows |-> InsertRaw(tbl, SubSeq(to_insert, 1, f - 1)),
                    tableDim |-> s.tableDim]
        kept == ConnectionExit([rows |-> tbl, tableDim |-> tDim], pending, TRUE)
    IN  [outcome |-> "StoreUnavailable", inserted |-> f - 1,
         rows |-> kept.rows, tableDim |-> kept.tableDim]

(* ------------------------- llm/rephrase.py ----------------------------- *)
\* len() of a text in characters: every word of the alphabet is one
\* character, the tokens are joined by single blanks
CharLen(text) == IF text = << >> THEN 0 ELSE Len(Split(text)) + Len(text) - 1

RephraseMinLen == 30
RephraseMaxLen == 600

\* a rephrase that hands back the prompt it built when the call fails
rephrase_prompt_on_error(text, llm) ==
    IF text = << >> \/ CharLen(Strip(text)) < RephraseMinLen
    THEN Strip(text)
    ELSE IF llm.outcome # "ok" THEN <<"D">> \o Strip(text)
    ELSE IF Strip(llm.response) = << >> THEN Strip(text)
    ELSE Left(Strip(llm.response), RephraseMaxLen)

\* rephrase_issue(text): llm is what the HTTP call to the model does, an
\* error (timeout, HTTP status, malformed body) or a response text
rephrase_issue(text, llm) ==
    IF text = << >> \/ CharLen(Strip(text)) < RephraseMinLen
    THEN Strip(text)
    ELSE IF llm.outcome # "ok" THEN Strip(text)
    ELSE IF Strip(llm.response) = << >> THEN Strip(text)
    ELSE Left(Strip(llm.response), RephraseMaxLen)

(* --------------------- retriever/hybrid_search.py ---------------------- *)
TOP_K_DEFAULT == 5
TopKMin == 1
TopKMax == 100
SnippetLeft == 300

\* top_k is << >> for None and <<n>> for the integer n
\* k = int(top_k or TOP_K_DEFAULT); k = max(1, min(100, k))
EffectiveK(top_k) ==
    LET k == IF top_k = << >> \/ top_k[1] = 0 THEN TOP_K_DEFAULT ELSE top_k[1]
    IN  Max(TopKMin, Min(TopKMax, k))

\* k_sql = max(k * 2, k + 5)
KSql(k) == Max(k * 2, k + 5)

\* a count that takes the length of the fetched row for the count
CountFetchedRow(tbl) == 1

\* _count_documents: SELECT COUNT(*) FROM documents
_count_documents(tbl) == Len(tbl)

\* embedding <-> qvec
Dist(e, qvec) == Abs(e - qvec)

\* the rows the WHERE clause keeps: all of them unless service is given
Filtered(tbl, service) ==
    {i \in 1..Len(tbl) : service \in {NULL, ""} \/ tbl[i].service = service}

\* the sequences that list every element of S once
Orderings(S) ==
    {o \in [1..Cardinality(S) -> S] : \A i, j \in 1..Cardinality(S) : i # j => o[i] # o[j]}

\* _search_with_vector: per issue_key its closest chunk, best score first,
\* at most limit of them. SQL leaves the order among equal distances open,
\* so this is the set of lists the query may return
_search_with_vector(tbl, qvec, limit, service) ==
    LET F == Filtered(tbl, service)
        keys == {tbl[i].issue_key : i \in F}
        best(k) == CHOOSE d \in {Dist(tbl[i].embedding, qvec) : i \in {j \in F : tbl[j].issue_key = k}} :
                      \A i \in F : tbl[i].issue_key = k => d <= Dist(tbl[i].embedding, qvec)
        closest(k) == {Left(tbl[i].text_chunk, SnippetLeft) :
                          i \in {j \in F : tbl[j].issue_key = k
                                           /\ Dist(tbl[j].embedding, qvec) = best(k)}}
        ranked == {o \in Orderings(keys) :
                      \A i \in 1..(Cardinality(keys) - 1) : best(o[i]) <= best(o[i + 1])}
        picks == {f \in [keys -> UNION {closest(k) : k \in keys}] :
                      \A k \in keys : f[k] \in closest(k)}
    IN  {[j \in 1..Min(limit, Cardinality(keys)) |-> <<o[j], f[o[j]], 0 - best(o[j])>>] :
            o \in ranked, f \in picks}

\* a lookup that never finds the item of a ticket
ItemOfNone(combined, issue_key) == 0

\* position of issue_key in combined, 0 if it has no item yet
ItemOf(combined, issue_key) ==
    IF \E i \in 1..Len(combined) : combined[i].issue_key = issue_key
    THEN CHOOSE i \in 1..Len(combined) : combined[i].issue_key = issue_key
    ELSE 0

\* one round of the loop of add_rows; combined keeps the insertion order of
\* the dict
AddRow(combined, row, key) ==
    LET at == ItemOf(combined, row[1])
        fresh == [issue_key |-> row[1], snippet |-> row[2],
                  score_orig |-> 0, score_reph |-> 0]
        c == IF at = 0 THEN Append(combined, fresh) ELSE combined
        p == IF at = 0 THEN Len(c) ELSE at
        item == c[p]
        snip == IF row[2] # << >> /\ CharLen(row[2]) > CharLen(item.snippet)
                THEN row[2] ELSE item.snippet
    IN  [c EXCEPT ![p] =
            IF key = "score_orig"
            THEN [item EXCEPT !.snippet = snip, !.score_orig = Max(item.score_orig, row[3])]
            ELSE [item EXCEPT !.snippet = snip, !.score_reph = Max(item.score_reph, row[3])]]

RECURSIVE add_rows(_, _, _)
add_rows(combined, channel, key) ==
    IF channel = << >> THEN combined
    ELSE add_rows(AddRow(combined, Head(channel), key), Tail(channel), key)

\* final_score = 0.6 * score_orig + 0.4 * score_reph, in tenths
WeightOrig == 6
WeightReph == 4
FinalScore(item) == WeightOrig * item.score_orig + WeightReph * item.score_reph

\* results.sort(key=lambda x: x[2], reverse=True): stable, best score first
RECURSIVE InsertSorted(_, _)
InsertSorted(sorted, x) ==
    IF sorted = << >> THEN <<x>>
    ELSE IF Head(sorted)[3] >= x[3]
         THEN <<Head(sorted)>> \o InsertSorted(Tail(sorted), x)
         ELSE <<x>> \o sorted

RECURSIVE SortByScore(_)
SortByScore(results) ==
    IF results = << >> THEN << >>
    ELSE InsertSorted(SortByScore(SubSeq(results, 1, Len(results) - 1)),
                      results[Len(results)])

\* a slice that is one too long
TruncateLoose(results, k) == SubSeq(results, 1, Min(k + 1, Len(results)))

\* results[:k]
Truncate(results, k) == SubSeq(results, 1, Min(k, Len(results)))

\* a fusion that sorts ascending and reverses the list, which turns the
\* order of equal scores around
FuseReversing(rows_orig, rows_reph, k) ==
    LET c1 == add_rows(<< >>, rows_orig, "score_orig")
        combined == IF rows_reph # << >> THEN add_rows(c1, rows_reph, "score_reph") ELSE c1
        results == [i \in 1..Len(combined) |->
                       <<combined[Len(combined) + 1 - i].issue_key,
                         combined[Len(combined) + 1 - i].snippet,
                         FinalScore(combined[Len(combined) + 1 - i])>>]
    IN  Truncate(SortByScore(results), k)

\* the fusion of the two channels: lines 203-231 of search
Fuse(rows_orig, rows_reph, k) ==
    LET c1 == add_rows(<< >>, rows_orig, "score_orig")
        combined == IF rows_reph # << >> THEN add_rows(c1, rows_reph, "score_reph") ELSE c1
        results == [i \in 1..Len(combined) |->
                       <<combined[i].issue_key, combined[i].snippet, FinalScore(combined[i])>>]
    IN  Truncate(SortByScore(results), k)

\* the rephrased query search embeds, << >> when the channel is absent
Rephrased(q, use_rephrase, llm) ==
    LET q_rephrased == rephrase_issue(q, llm)
    IN  IF use_rephrase /\ q_rephrased # << >> /\ Strip(q_rephrased) # << >>
           /\ Strip(q_rephrased) # Strip(q)
        THEN q_rephrased ELSE << >>

\* search(q, top_k, use_rephrase, service): the set of outcomes the call may
\* have on the table tbl. The connection block commits when it is left
\* normally and rolls back when it is left by an exception, and then the
\* CREATE TABLE of ensure_schema is undone with it
search(tbl, tDim, dim, q, top_k, use_rephrase, service, llm) ==
    LET k == EffectiveK(top_k)
        k_sql == KSql(k)
        q_reph == Rephrased(q, use_rephrase, llm)
        s == ensure_schema(tDim, dim)
        fail(e) == [outcome |-> e, results |-> << >>, rows_orig |-> << >>,
                    rows_reph |-> << >>, k |-> k, tableDim |-> tDim]
    IN  IF s.outcome # "ok" THEN {fail(s.outcome)}
        ELSE IF _count_documents(tbl) = 0 THEN {fail("NoDocumentsError")}
        ELSE IF s.tableDim # dim /\ Filtered(tbl, service) # {} THEN {fail("StoreError")}
        ELSE {[outcome |-> "ok", results |-> Fuse(ro, rr, k), rows_orig |-> ro,
               rows_reph |-> rr, k |-> k, tableDim |-> s.tableDim] :
                 ro \in _search_with_vector(tbl, encode(q), k_sql, service),
                 rr \in IF q_reph = << >> THEN {<< >>}
                        ELSE _search_with_vector(tbl, encode(q_reph), k_sql, service)}

(* --------------------- api/routes/servicedesk.py ----------------------- *)
\* the fields of a flat event that the ticket's event list records
Fields == {"state", "route", "priority", "responsible_team", "description_plain"}

\* the field values of the model: "" empty, " " blanks only, "long" a text
\* of more than 500 characters, the others short texts
Values == {"", " ", "new", "done", "L1", "ops", "text", "long"}

\* _safe_str(v).strip()
StripVal(v) == IF v = " " THEN "" ELSE v

\* s[:500]
DescKeep == 500
LeftDesc(v) == IF v = "long" THEN "long[:500]" ELSE v

\* a merge of one field that takes the event's value as it is
MergeFieldOverwrite(prevVal, v) == StripVal(v)

\* the loop over flat.items(): a non-empty value replaces the stored one, an
\* empty one leaves it (or sets "" when the field had no value yet)
MergeField(prevVal, v) == IF StripVal(v) # "" THEN StripVal(v) ELSE prevVal

\* ev: the event entry, stamped with the second of the call
Event(flat, at) ==
    [ts |-> at, state |-> flat["state"], route |-> flat["route"],
     priority |-> flat["priority"], responsible_team |-> flat["responsible_team"],
     description_plain |-> LeftDesc(flat["description_plain"])]

\* if not out["events"] or out["events"][-1] != ev: out["events"].append(ev)
AppendEvent(events, ev) ==
    IF events = << >> \/ events[Len(events)] # ev THEN Append(events, ev) ELSE events

\* out["events"][-50:]
EventsKeep == 50
KeepLast(events, n) == SubSeq(events, Max(1, Len(events) - n + 1), Len(events))

\* the state of a ticket never merged: prev = {}; 0 stands for "no time stamp"
NoTicket ==
    [fields |-> [k \in Fields |-> ""], events |-> << >>, created_at |-> 0,
     updated_at |-> 0]

\* _merge_state(prev, flat) called at the second `at`
_merge_state(prev, flat, at) ==
    [fields |-> [k \in Fields |-> MergeField(prev.fields[k], flat[k])],
     events |-> KeepLast(AppendEvent(prev.events, Event(flat, at)), EventsKeep),
     created_at |-> IF prev.created_at = 0 THEN at ELSE prev.created_at,
     updated_at |-> at]

(* ---------------------------- state ------------------------------------ *)
VARIABLES
    rows,       \* the documents table, in id order
    tableDim,   \* vector dimension of the documents table, 0: no table yet
    modelDim,   \* dimension of the configured embedding model (EMBEDDING_MODEL)
    staged,     \* the records of the CSV files in NEW_TICKETS_DIR
    last,       \* the last call: what was called, with what, what it returned
    cText,      \* chunking specification: the text handed to chunk
    cSize,      \* its window size
    cOverlap,   \* its overlap
    cOut,       \* outcome "pending" before the call, then the value of chunk(...)
    _model,     \* the module global _model: 0 is None, else the handle it holds
    constructed, \* how many SentenceTransformer objects the process has built
    pc,         \* per request thread: where it is in get_model
    held,       \* per request thread: the handle it has built and not yet stored
    got,        \* per request thread: the handle its last get_model call returned
    ticket,     \* the stored state of one service-desk ticket (its state file)
    now,        \* the wall clock, in seconds
    mLast,      \* the last _merge_state call: the state before it and its event
    ing         \* per concurrent ingest_new_tickets call: where it is, and its to_insert

vars == <<rows, tableDim, modelDim, staged, last, cText, cSize, cOverlap, cOut,
          _model, constructed, pc, held, got, ticket, now, mLast, ing>>

storeVars == <<rows, tableDim, modelDim, staged, last>>
chunkVars == <<cText, cSize, cOverlap, cOut>>

cacheVars == <<_model, constructed, pc, held, got>>

mergeVars == <<ticket, now, mLast>>

\* the ingest_new_tickets calls that may run at the same time
NCalls == 2
Calls == 1..NCalls

\* no call has started
InitIng == ing = [c \in Calls |-> [pc |-> "idle", to_insert |-> << >>]]

\* the request threads of the process: the worker threads that run the
\* synchronous endpoints and the event loop thread
NThreads == 3
Threads == 1..NThreads

\* a fresh process: _model = None and no thread inside get_model
InitCache ==
    /\ _model = 0
    /\ constructed = 0
    /\ pc = [t \in Threads |-> "out"]
    /\ held = [t \in Threads |-> 0]
    /\ got = [t \in Threads |-> 0]

\* the events of the model
FlatNew ==
    [state |-> "new", route |-> "L1", priority |-> " ", responsible_team |-> "ops",
     description_plain |-> "long"]
FlatBlank ==
    [state |-> " ", route |-> "", priority |-> "", responsible_team |-> "",
     description_plain |-> ""]
FlatDone ==
    [state |-> "done", route |-> "", priority |-> "new", responsible_team |-> "ops",
     description_plain |-> "text"]
Flats == {FlatNew, FlatBlank, FlatDone}

\* the state of a ticket after n FlatNew events, one per second
Worn(n) ==
    IF n = 0 THEN NoTicket
    ELSE [fields |-> [k \in Fields |-> StripVal(FlatNew[k])],
          events |-> [i \in 1..n |-> Event(FlatNew, i)],
          created_at |-> 1, updated_at |-> n]

NoMerge == [op |-> "none", prev |-> NoTicket, flat |-> FlatBlank, at |-> 0,
            again |-> FALSE, count |-> 0]

\* outside the ticket specification there is no ticket
InitTicket == ticket = NoTicket /\ now = 0 /\ mLast = NoMerge

Pending == [outcome |-> "pending", chunks |-> << >>]

(* -------------------- chunking specification --------------------------- *)
\* a text of n words: the alphabet, repeated when it is used up
Prefix(n) == [i \in 1..n |-> Alphabet[((i - 1) % Len(Alphabet)) + 1]]

ChunkTexts == {Prefix(n) : n \in 0..MaxWords} \cup {<<"", "">>, <<"", "A", "", "B">>}

\* what the last call of an operation left behind
\* op, input: the operation and its arguments; outcome: "ok" or the error
\* raised; result: the value returned; added: rows added to the table;
\* dimBefore, countBefore: the table's dimension and row count at call time;
\* missing: a staged issue_key had no row at call time (reconciliation);
\* trace: what the call did inside (the channel lists and k of a search, the
\* texts encoded by a reconciliation, the calls made by /ask);
\* again: the call before was the same operation on the same input, and
\* then prev is what that call left behind
Call(op, input, outcome, result, added, dimBefore, countBefore, missing, trace) ==
    LET again == last.op = op /\ last.input = input
    IN  [op |-> op, input |-> input, outcome |-> outcome, result |-> result,
         added |-> added, dimBefore |-> dimBefore, countBefore |-> countBefore,
         missing |-> missing, trace |-> trace, again |-> again,
         prev |-> IF again
                  THEN [outcome |-> last.outcome, result |-> last.result,
                        added |-> last.added, missing |-> last.missing]
                  ELSE [outcome |-> "none", result |-> << >>, added |-> 0,
                        missing |-> FALSE]]

NoCall ==
    [op |-> "none", input |-> << >>, outcome |-> "ok", result |-> << >>,
     added |-> 0, dimBefore |-> 0, countBefore |-> 0, missing |-> FALSE,
     trace |-> << >>, again |-> FALSE,
     prev |-> [outcome |-> "none", result |-> << >>, added |-> 0, missing |-> FALSE]]

InitChunk ==
    /\ cText \in ChunkTexts
    /\ cSize \in MinSize..MaxSize
    /\ cOverlap \in MinSize..MaxOverlap
    /\ cOut = Pending
    /\ rows = << >> /\ tableDim = 0 /\ modelDim = 384 /\ staged = << >>
    /\ last = NoCall
    /\ InitCache
    /\ InitIng
    /\ InitTicket

CallChunk ==
    /\ cOut = Pending
    /\ cOut' = chunk(cText, cSize, cOverlap)
    /\ UNCHANGED <<cText, cSize, cOverlap>>
    /\ UNCHANGED <<storeVars, cacheVars, mergeVars, ing>>

NextChunk == CallChunk

SpecChunk == InitChunk /\ [][NextChunk]_vars

(* ----------------------- store specification --------------------------- *)
\* vector dimensions of the embedding models a deployment may configure
Dims == {384, 768}

\* most rows the table holds in the model
MaxRows == 6

\* the documents of data/anonymized
Doc(k, svc, text) == [issue_key |-> k, service |-> svc, text |-> text]
DocG == Doc("K1", "billing", Prefix(7))
DocH == Doc("K1", "billing", Prefix(6) \o <<"H">>)
DocShort == Doc("K2", NULL, <<"", "A", "", "B", "C">>)
DocBlank == Doc("K3", "billing", <<"", "">>)
DocK1 == Doc("K1", "billing", <<"A", "B">>)
DocSets == {<< >>, <<DocG>>, <<DocH>>, <<DocShort>>, <<DocBlank, DocShort>>}

\* window configurations (size, overlap) the pipeline is run with
Windows == {<<3, 1>>, <<2, 2>>}

Init ==
    /\ rows = << >>
    /\ tableDim = 0
    /\ modelDim = 384
    /\ staged = << >>
    /\ last = NoCall
    /\ cText = << >> /\ cSize = 1 /\ cOverlap = 0 /\ cOut = Pending
    /\ InitCache
    /\ InitIng
    /\ InitTicket

\* the deployment is restarted with another EMBEDDING_MODEL
SwitchModel(d) ==
    /\ d # modelDim
    /\ modelDim' = d
    /\ last' = Call("switch", <<d>>, "ok", << >>, 0, tableDim, Len(rows), FALSE, << >>)
    /\ UNCHANGED <<rows, tableDim, staged>>
    /\ UNCHANGED <<chunkVars, cacheVars, mergeVars, ing>>

\* python indexer/embeddings.py over the documents arr
RunPipeline(arr, size, overlap) ==
    LET m == main(rows, tableDim, modelDim, arr, size, overlap)
        input == <<arr, size, overlap, modelDim>>
    IN  /\ Len(m.rows) <= MaxRows
        /\ rows' = m.rows
        /\ tableDim' = m.tableDim
        /\ last' = Call("pipeline", input, m.outcome, << >>,
                        Len(m.rows) - Len(rows), tableDim, Len(rows), FALSE, << >>)
        /\ UNCHANGED <<modelDim, staged>>
        /\ UNCHANGED <<chunkVars, cacheVars, mergeVars, ing>>

\* the records a file dropped into NEW_TICKETS_DIR may hold
Staged(k, text) == [issue_key |-> k, text |-> text]
StagedRecords ==
    {Staged("K1", <<"A", "B">>), Staged(" K1", <<"", "C", "">>),
     Staged("K4", <<"D">>), Staged("", <<"A">>), Staged("K5", <<"", "">>)}

\* most records staged in the model
MaxStaged == 2

\* a CSV file with one record lands in NEW_TICKETS_DIR
DropCsv(rec) ==
    /\ Len(staged) < MaxStaged
    /\ staged' = Append(staged, rec)
    /\ last' = Call("drop", <<rec>>, "ok", << >>, 0, tableDim, Len(rows), FALSE, << >>)
    /\ UNCHANGED <<rows, tableDim, modelDim>>
    /\ UNCHANGED <<chunkVars, cacheVars, mergeVars, ing>>

\* POST /manage/reindex: ingest_new_tickets()
Reconcile ==
    LET r == ingest_new_tickets(rows, tableDim, modelDim, staged)
        missing == \E p \in 1..Len(_load_csv_rows(staged)) :
                      _load_csv_rows(staged)[p].issue_key \notin ExistingIssueKeys(rows)
    IN  /\ Len(r.rows) <= MaxRows
        /\ rows' = r.rows
        /\ tableDim' = r.tableDim
        /\ last' = Call("reconcile", <<staged, modelDim>>, r.outcome, r.result,
                        Len(r.rows) - Len(rows), tableDim, Len(rows), missing,
                        [encoded |-> r.encoded])
        /\ UNCHANGED <<modelDim, staged>>
        /\ UNCHANGED <<chunkVars, cacheVars, mergeVars, ing>>

\* ingestion and reconciliation over short documents
SmallDocSets == {<< >>, <<DocK1>>, <<DocBlank, DocShort>>}

Next ==
    \/ \E d \in Dims : SwitchModel(d)
    \/ \E rec \in StagedRecords : DropCsv(rec)
    \/ Reconcile
    \/ \E arr \in SmallDocSets : RunPipeline(arr, 3, 1)

Spec == Init /\ [][Next]_vars

\* ingest_new_tickets() with a store failure at its f-th INSERT
ReconcileFailure(f) ==
    LET to_insert == ToInsert(_load_csv_rows(staged), ExistingIssueKeys(rows))
        r == ingest_store_failure(rows, tableDim, modelDim, staged, f)
    IN  /\ f \in 1..Len(to_insert)
        /\ ensure_schema(tableDim, modelDim).tableDim = modelDim
        /\ Len(r.rows) <= MaxRows
        /\ rows' = r.rows
        /\ tableDim' = r.tableDim
        /\ last' = Call("reconcile_failure", <<staged, modelDim, f>>, r.outcome, 0,
                        Len(r.rows) - Len(rows), tableDim, Len(rows), TRUE,
                        [inserted |-> r.inserted])
        /\ UNCHANGED <<modelDim, staged>>
        /\ UNCHANGED <<chunkVars, cacheVars, mergeVars, ing>>

\* ingestion and reconciliation with store failures
NextFault ==
    \/ Next
    \/ \E f \in 1..MaxStaged : ReconcileFailure(f)

SpecFault == Init /\ [][NextFault]_vars

\* the queries of the model: a short one, and one of more than 30 characters
QShort == <<"", "A", "B">>
QLong == Prefix(16)

\* what the call to the rephrase model may do
LlmError == [outcome |-> "error", response |-> << >>]
LlmSays(text) == [outcome |-> "ok", response |-> text]

\* (q, use_rephrase, llm) of the searches of the model
QueryPlain == <<QShort, FALSE, LlmError>>
QueryBoth == <<QLong, TRUE, LlmSays(<<"", "C", "D">>)>>
Queries ==
    {QueryPlain, QueryBoth, <<QShort, TRUE, LlmSays(<<"C">>)>>,
     <<QLong, TRUE, LlmError>>, <<QLong, TRUE, LlmSays(<<"", "">>)>>}

\* top_k of the searches of the model, << >> for "not given"
TopKs == {<< >>, <<0 - 1>>, <<0>>, <<1>>, <<2>>, <<101>>}

\* the searches of the model: (query, top_k, service)
Searches ==
    {<<qq, top_k, NULL>> : qq \in {QueryPlain, QueryBoth}, top_k \in TopKs}
    \cup {<<qq, top_k, NULL>> : qq \in Queries, top_k \in {<< >>, <<1>>}}
    \cup {<<qq, top_k, "billing">> : qq \in {QueryPlain, QueryBoth}, top_k \in {<<0>>, <<1>>}}

\* a search whose schema step drops a table of another dimension and
\* creates it again
SearchRecreating(q, top_k, use_rephrase, service, llm) ==
    /\ \E r \in search(rows, tableDim, modelDim, q, top_k, use_rephrase, service, llm) :
          /\ last' = Call("search", <<q, top_k, use_rephrase, service, llm>>,
                          r.outcome, r.results, 0, tableDim, Len(rows), FALSE,
                          [rows_orig |-> r.rows_orig, rows_reph |-> r.rows_reph, k |-> r.k])
          /\ tableDim' = r.tableDim
    /\ rows' = IF tableDim \notin {0, modelDim} THEN << >> ELSE rows
    /\ UNCHANGED <<modelDim, staged>>
    /\ UNCHANGED <<chunkVars, cacheVars, mergeVars, ing>>

\* search(q, top_k, use_rephrase, service)
Search(q, top_k, use_rephrase, service, llm) ==
    /\ \E r \in search(rows, tableDim, modelDim, q, top_k, use_rephrase, service, llm) :
          /\ last' = Call("search", <<q, top_k, use_rephrase, service, llm>>,
                          r.outcome, r.results, 0, tableDim, Len(rows), FALSE,
                          [rows_orig |-> r.rows_orig, rows_reph |-> r.rows_reph, k |-> r.k])
          /\ tableDim' = r.tableDim
    /\ UNCHANGED <<rows, modelDim, staged>>
    /\ UNCHANGED <<chunkVars, cacheVars, mergeVars, ing>>

\* the documents indexed in the search specification
DocK4 == Doc("K4", "billing", <<"C", "D">>)
SearchDocSets == {<<DocK1>>, <<DocBlank, DocShort>>, <<DocK4>>}

NextSearch ==
    \/ \E d \in Dims : SwitchModel(d)
    \/ \E arr \in SearchDocSets : RunPipeline(arr, 3, 1)
    \/ \E c \in Searches : Search(c[1][1], c[2], c[1][2], c[3], c[1][3])

SpecSearch == Init /\ [][NextSearch]_vars

\* the indexer alone, over the longer documents
NextIndexer ==
    \/ \E d \in Dims : SwitchModel(d)
    \/ \E arr \in DocSets, w \in Windows : RunPipeline(arr, w[1], w[2])

SpecIndexer == Init /\ [][NextIndexer]_vars

\* the indexer over documents of different tickets that hold the same text
DocTwin == Doc("K6", "billing", <<"A", "B">>)
TwinDocSets == {<<DocK1>>, <<DocTwin>>, <<DocShort>>, <<DocTwin, DocK1>>}

NextTwin ==
    \/ \E d \in Dims : SwitchModel(d)
    \/ \E arr \in TwinDocSets : RunPipeline(arr, 3, 1)

SpecTwin == Init /\ [][NextTwin]_vars

(* ------------------------- api/main.py: /ask --------------------------- *)
\* a test that only rejects the empty string
AskIsEmptyRaw(issue_text) == issue_text = << >>

\* `not issue_text or not issue_text.strip()`
AskIsEmpty(issue_text) == issue_text = << >> \/ Strip(issue_text) = << >>

AskTopKMax == 50
AskTopK(context_count) == Max(1, Min(AskTopKMax, context_count))

\* ask(issue_text, context_count, service): the responses the handler may
\* give on the table tbl. llm is what the rephrase model does inside search,
\* gen what generate does ("ok" or "error"), fmt what to_structured does.
\* status and error are those of the JSON response, "ok" for the answer;
\* calls lists the calls made to search and generate, in order
ask(tbl, tDim, dim, issue_text, context_count, service, llm, gen, fmt) ==
    IF AskIsEmpty(issue_text)
    THEN {[status |-> 400, error |-> "empty_issue_text", calls |-> << >>,
           results |-> << >>, tableDim |-> tDim]}
    ELSE {IF r.outcome # "ok"
          THEN [status |-> 500, error |-> "retrieval_failed", calls |-> <<"search">>,
                results |-> << >>, tableDim |-> r.tableDim]
          ELSE IF gen # "ok"
          THEN [status |-> 502, error |-> "llm_failed",
                calls |-> <<"search", "generate">>,
                results |-> r.results, tableDim |-> r.tableDim]
          ELSE IF fmt # "ok"
          THEN [status |-> 500, error |-> "format_failed",
                calls |-> <<"search", "generate">>,
                results |-> r.results, tableDim |-> r.tableDim]
          ELSE [status |-> 200, error |-> "ok", calls |-> <<"search", "generate">>,
                results |-> r.results, tableDim |-> r.tableDim] :
            r \in search(tbl, tDim, dim, issue_text, <<AskTopK(context_count)>>,
                         TRUE, service, llm)}

\* POST /ask
Ask(issue_text, context_count, service, llm, gen, fmt) ==
    /\ \E a \in ask(rows, tableDim, modelDim, issue_text, context_count, service,
                    llm, gen, fmt) :
          /\ last' = Call("ask", <<issue_text, context_count, service, llm, gen, fmt>>,
                          a.error, a.status, 0, tableDim, Len(rows), FALSE,
                          [calls |-> a.calls, results |-> a.results])
          /\ tableDim' = a.tableDim
    /\ UNCHANGED <<rows, modelDim, staged>>
    /\ UNCHANGED <<chunkVars, cacheVars, mergeVars, ing>>

\* the issue texts posted in the model: empty, blanks only, and two queries
AskTexts == {<< >>, <<"", "">>, <<"">>, QShort, QLong}

\* (context_count, service, llm, gen, fmt) of the requests of the model
AskRest ==
    {<<20, NULL, LlmError, "ok", "ok">>,
     <<0, NULL, LlmSays(<<"", "C", "D">>), "ok", "ok">>,
     <<1, "billing", LlmError, "error", "ok">>,
     <<51, NULL, LlmError, "ok", "error">>}

NextAsk ==
    \/ \E d \in Dims : SwitchModel(d)
    \/ \E arr \in SearchDocSets : RunPipeline(arr, 3, 1)
    \/ \E t \in AskTexts, c \in AskRest : Ask(t, c[1], c[2], c[3], c[4], c[5])

SpecAsk == Init /\ [][NextAsk]_vars

(* ------------------- get_model under request threads ------------------- *)
\* a thread calls get_model and evaluates `_model is None`
GetModelTest(t) ==
    /\ pc[t] = "out"
    /\ pc' = [pc EXCEPT ![t] = IF _model = 0 THEN "load" ELSE "ret"]
    /\ UNCHANGED <<_model, constructed, held, got>>
    /\ UNCHANGED <<storeVars, chunkVars, mergeVars, ing>>

\* it builds a SentenceTransformer: a new object each time
GetModelConstruct(t) ==
    /\ pc[t] = "load"
    /\ constructed' = constructed + 1
    /\ held' = [held EXCEPT ![t] = constructed + 1]
    /\ pc' = [pc EXCEPT ![t] = "store"]
    /\ UNCHANGED <<_model, got>>
    /\ UNCHANGED <<storeVars, chunkVars, mergeVars, ing>>

\* it stores the object in the global
GetModelStore(t) ==
    /\ pc[t] = "store"
    /\ _model' = held[t]
    /\ held' = [held EXCEPT ![t] = 0]
    /\ pc' = [pc EXCEPT ![t] = "ret"]
    /\ UNCHANGED <<constructed, got>>
    /\ UNCHANGED <<storeVars, chunkVars, mergeVars, ing>>

\* it reads the global and returns it
GetModelReturn(t) ==
    /\ pc[t] = "ret"
    /\ got' = [got EXCEPT ![t] = _model]
    /\ pc' = [pc EXCEPT ![t] = "out"]
    /\ UNCHANGED <<_model, constructed, held>>
    /\ UNCHANGED <<storeVars, chunkVars, mergeVars, ing>>

NextModel ==
    \/ \E t \in Threads : GetModelTest(t)
    \/ \E t \in Threads : GetModelConstruct(t)
    \/ \E t \in Threads : GetModelStore(t)
    \/ \E t \in Threads : GetModelReturn(t)

SpecModel == Init /\ [][NextModel]_vars
(* ------------------- ticket state under events ------------------------- *)
\* a ticket without history, or one that has received EventsKeep - 1 events
InitMerge ==
    /\ rows = << >> /\ tableDim = 0 /\ modelDim = 384 /\ staged = << >>
    /\ last = NoCall
    /\ cText = << >> /\ cSize = 1 /\ cOverlap = 0 /\ cOut = Pending
    /\ InitCache
    /\ InitIng
    /\ \E n \in {0, EventsKeep - 1} : ticket = Worn(n) /\ now = n + 1
    /\ mLast = NoMerge

\* how many events and seconds a behaviour of the ticket specification has
MaxMerges == 3
MaxTicks == 2

\* a second passes
Tick ==
    /\ now < ticket.updated_at + MaxTicks
    /\ now' = now + 1
    /\ UNCHANGED <<ticket, mLast>>
    /\ UNCHANGED <<storeVars, chunkVars, cacheVars, ing>>

\* an event for the ticket arrives: prev = _read_state, _merge_state,
\* _write_state
MergeState(flat) ==
    /\ mLast.count < MaxMerges
    /\ ticket' = _merge_state(ticket, flat, now)
    /\ mLast' = [op |-> "merge", prev |-> ticket, flat |-> flat, at |-> now,
                 again |-> mLast.op = "merge" /\ mLast.flat = flat,
                 count |-> mLast.count + 1]
    /\ UNCHANGED now
    /\ UNCHANGED <<storeVars, chunkVars, cacheVars, ing>>

NextMerge ==
    \/ Tick
    \/ \E flat \in Flats : MergeState(flat)

SpecMerge == InitMerge /\ [][NextMerge]_vars

(* --------------- concurrent ingest_new_tickets calls ------------------- *)
\* a call loads the staged rows, opens its transaction and reads
\* existing_keys: it sees the rows committed so far, and builds to_insert
IngestRead(c) ==
    LET to_insert == ToInsert(_load_csv_rows(staged), ExistingIssueKeys(rows))
    IN  /\ ing[c].pc = "idle"
        /\ to_insert # << >>
        /\ ing' = [ing EXCEPT ![c] = [pc |-> "insert", to_insert |-> to_insert]]
        /\ UNCHANGED storeVars
        /\ UNCHANGED <<chunkVars, cacheVars, mergeVars>>

\* the call executes its INSERT statements and commits: its rows become
\* visible to the other calls
IngestCommit(c) ==
    /\ ing[c].pc = "insert"
    /\ Len(rows) + Len(ing[c].to_insert) <= MaxRows
    /\ rows' = InsertRaw(rows, ing[c].to_insert)
    /\ tableDim' = ensure_schema(tableDim, modelDim).tableDim
    /\ ing' = [ing EXCEPT ![c] = [pc |-> "idle", to_insert |-> << >>]]
    /\ UNCHANGED <<modelDim, staged, last>>
    /\ UNCHANGED <<chunkVars, cacheVars, mergeVars>>

NextConcurrent ==
    \/ \E rec \in StagedRecords : DropCsv(rec)
    \/ \E c \in Calls : IngestRead(c)
    \/ \E c \in Calls : IngestCommit(c)

SpecConcurrent == Init /\ [][NextConcurrent]_vars

(* ------------------------------ claims --------------------------------- *)
\* ceil(a / b) for a >= 0, b > 0
CeilDiv(a, b) == (a + b - 1) \div b

\* the words of the text handed to chunk
cWords == Split(cText)

\* C1: a run of the pipeline that follows a run over the same documents
\* (same window, same model) leaves the table exactly as it was: same rows,
\* same row count, the row of the short trailing window included
C1_IdempotentIngestion ==
    [][(last'.op = "pipeline" /\ last'.again) => rows' = rows]_vars

C1_Witness ==
    /\ last.op = "pipeline" /\ last.again
    /\ last.outcome = "ok" /\ last.prev.outcome = "ok"
    /\ last.prev.added >= 2 /\ last.added = 0
    /\ \E i \in 1..Len(rows) : Len(rows[i].text_chunk) < last.input[2]

\* C2: of two consecutive reconciliations over the same staged data, the
\* first one starting with a staged issue_key that has no row, the first
\* returns a nonzero count and the second returns 0 and adds no row
C2_ReconcileIdempotent ==
    (last.op = "reconcile" /\ last.again /\ last.prev.missing
     /\ last.prev.outcome = "ok")
    => /\ last.prev.result > 0
       /\ last.outcome = "ok" /\ last.result = 0 /\ last.added = 0

C2_Witness ==
    /\ last.op = "reconcile" /\ last.again /\ last.prev.missing
    /\ last.prev.outcome = "ok" /\ last.prev.result = 2 /\ last.result = 0
    /\ Len(rows) >= 2

\* the final scores of a result list never go up
NonIncreasing(results) ==
    \A i \in 1..(Len(results) - 1) : results[i][3] >= results[i + 1][3]

\* C3: a search with top_k in 1..100 returns at most top_k results, their
\* final scores in non-increasing order
C3_TopKBound ==
    (last.op = "search" /\ last.outcome = "ok" /\ last.input[2] # << >>
     /\ last.input[2][1] \in TopKMin..TopKMax)
    => /\ Len(last.result) <= last.input[2][1]
       /\ NonIncreasing(last.result)

C3_Witness ==
    /\ last.op = "search" /\ last.outcome = "ok" /\ last.input[2] = <<2>>
    /\ Len(last.trace.rows_orig) = 3 /\ last.trace.rows_reph # << >>
    /\ Len(last.result) = 2

\* the issue_keys of a channel list
KeysOf(channel) == {channel[i][1] : i \in 1..Len(channel)}

\* C4: a ticket that only the raw-query channel returned, with score S, is
\* reported with the final score 0.6 * S (in tenths: 6 * S)
C4_RawOnlyScore ==
    (last.op = "search" /\ last.outcome = "ok")
    => \A i \in 1..Len(last.result), j \in 1..Len(last.trace.rows_orig) :
          (last.trace.rows_orig[j][1] = last.result[i][1]
           /\ last.result[i][1] \notin KeysOf(last.trace.rows_reph))
          => last.result[i][3] = WeightOrig * last.trace.rows_orig[j][3]

\* C5: search raises NoDocumentsError exactly when the table has no row at
\* call time; with rows of which none passes the service filter it returns
\* the empty list
C5_EmptyStoreSignal ==
    last.op = "search"
    => /\ (last.outcome = "NoDocumentsError") <=> (last.countBefore = 0)
       /\ (last.countBefore > 0 /\ Filtered(rows, last.input[4]) = {})
          => (last.outcome = "ok" /\ last.result = << >>)

C5_Witness ==
    /\ last.op = "search" /\ last.outcome = "NoDocumentsError"
    /\ rows = << >> /\ last.countBefore = 0 /\ last.result = << >>

\* C6: for 0 <= overlap < size and a text of n >= size words, chunk yields
\* exactly ceil((n - size) / (size - overlap)) + 1 chunks (3 for n = 10,
\* size = 4, overlap = 1)
C6_WindowCount ==
    (cOut # Pending /\ 0 <= cOverlap /\ cOverlap < cSize /\ Len(cWords) >= cSize)
    => /\ cOut.outcome = "ok"
       /\ Len(cOut.chunks) = CeilDiv(Len(cWords) - cSize, cSize - cOverlap) + 1

\* the rows a first run over arr writes into an empty table
Fresh(arr, size, overlap) == main(<< >>, 0, modelDim, arr, size, overlap).rows

\* C7: with size 3 and overlap 1 the document "A B C D E F G" is stored as 3
\* rows; ingesting it again adds no row; ingesting it with G replaced by H
\* adds exactly 1 row and keeps the rows written before
C7_ChangeScenario ==
    (last.op = "pipeline" /\ last.outcome = "ok"
     /\ last.input[2] = 3 /\ last.input[3] = 1)
    => /\ (last.input[1] = <<DocG>> /\ last.countBefore = 0) => last.added = 3
       /\ (last.input[1] = <<DocG>> /\ last.again) => last.added = 0
       /\ (last.input[1] = <<DocH>>
           /\ SubSeq(rows, 1, last.countBefore) = Fresh(<<DocG>>, 3, 1))
          => /\ last.added = 1
             /\ \E i \in 1..Len(rows) : rows[i].text_chunk = <<"E", "F", "G">>

\* C8: the number of results of a search called with the integer top_k is
\* at most min(100, max(1, top_k)), for 0 and negative top_k as well
C8_TopKClamp ==
    (last.op = "search" /\ last.outcome = "ok" /\ last.input[2] # << >>)
    => Len(last.result) <= Min(TopKMax, Max(TopKMin, last.input[2][1]))

C10_SchemaCheck ==
    (/\ last.op \in {"pipeline", "reconcile"}
     /\ last.op = "reconcile" => _load_csv_rows(staged) # << >>
     /\ last.dimBefore # 0 /\ last.dimBefore # modelDim)
    => last.outcome = "SchemaError"

\* no two rows of tbl carry the same non-null text_hash
UniqueHashes(tbl) ==
    \A i, j \in 1..Len(tbl) :
        (i # j /\ tbl[i].text_hash = tbl[j].text_hash) => tbl[i].text_hash = NoHash

\* every chunk of the pipeline input has its digest in tbl already
AllStored(tbl, input) ==
    LET f == Fresh(input[1], input[2], input[3])
    IN  \A i \in 1..Len(f) : HasHash(tbl, f[i].text_hash)

\* C11: whatever the pipeline and the reconciliation do, no two rows carry
\* the same non-null text_hash and the rows written before stay as they are;
\* a pipeline run all of whose digests are stored raises nothing and changes
\* no row
C11_HashUnique ==
    [][/\ UniqueHashes(rows')
       /\ Len(rows') >= Len(rows) /\ SubSeq(rows', 1, Len(rows)) = rows
       /\ (last'.op = "pipeline" /\ AllStored(rows, last'.input)
           /\ tableDim \in {0, modelDim})
          => (last'.outcome = "ok" /\ rows' = rows)]_vars

C11_Witness ==
    /\ last.op = "pipeline" /\ last.outcome = "ok" /\ last.added = 0
    /\ last.countBefore >= 4
    /\ AllStored(rows, last.input) /\ Fresh(last.input[1], 3, 1) # << >>
    /\ \E i, j \in 1..Len(rows) : i # j /\ rows[i].text_hash = NoHash
                                  /\ rows[j].text_hash = NoHash

\* the issue_keys that have a row among the first n rows of tbl
KeysUpTo(tbl, n) == {tbl[i].issue_key : i \in 1..n}

\* C12: a reconciliation call inserts no row for an issue_key that had a row
\* when the call started, whatever the staged text
C12_TicketDedup ==
    [][last'.op = "reconcile"
       => \A i \in (Len(rows) + 1)..Len(rows') :
             rows'[i].issue_key \notin KeysUpTo(rows, Len(rows))]_vars

C12_Witness ==
    /\ last.op = "reconcile" /\ last.outcome = "ok" /\ last.added = 1
    /\ \E p \in 1..Len(_load_csv_rows(staged)) :
          LET pair == _load_csv_rows(staged)[p]
          IN  /\ pair.issue_key \in KeysUpTo(rows, last.countBefore)
              /\ \A i \in 1..Len(rows) :
                    rows[i].issue_key = pair.issue_key => rows[i].text_chunk # pair.text

\* C13: ingest_new_tickets returns the number of rows it added; with nothing
\* staged, or with every staged issue_key present already, it returns 0 and
\* raises nothing
C13_ReturnValue ==
    last.op = "reconcile"
    => /\ last.outcome = "ok" => last.result = last.added
       /\ (_load_csv_rows(staged) = << >>
           \/ \A p \in 1..Len(_load_csv_rows(staged)) :
                 _load_csv_rows(staged)[p].issue_key \in KeysUpTo(rows, last.countBefore))
          => (last.outcome = "ok" /\ last.result = 0 /\ last.added = 0)

C13_Witness ==
    /\ last.op = "reconcile" /\ last.outcome = "ok"
    /\ last.result = 2 /\ last.added = 2 /\ last.countBefore > 0

\* C14 as stated: after a store failure that follows some of the INSERTs of
\* a reconciliation call, the error reaches the caller and the rows inserted
\* before the failure are in the table
C14_PartialRowsRemain ==
    (last.op = "reconcile_failure" /\ last.trace.inserted >= 1)
    => (last.outcome # "ok" /\ last.added = last.trace.inserted)

\* C14, amended: after such a failure the error reaches the caller and the
\* rows inserted before it are gone: the transaction is rolled back and the
\* table is as it was when the call started
C14_RolledBack ==
    [][(last'.op = "reconcile_failure" /\ last'.trace.inserted >= 1)
       => (last'.outcome = "StoreUnavailable" /\ rows' = rows
           /\ tableDim' = tableDim)]_vars

C14_Witness ==
    /\ last.op = "reconcile_failure" /\ last.trace.inserted = 1
    /\ last.outcome = "StoreUnavailable"
    /\ last.countBefore >= 1 /\ Len(rows) = last.countBefore

\* the rephrase provider fails: network or HTTP error, malformed body, or
\* an empty response
LlmFails(llm) == llm.outcome # "ok" \/ Strip(llm.response) = << >>

\* C15: when the rephrase provider fails, search does not run a rephrased
\* channel and ends as a search of the same query, top_k and service with
\* use_rephrase=False may end: same outcome, same result list
C15_RephraseDegrades ==
    (last.op = "search" /\ last.input[3] /\ LlmFails(last.input[5]))
    => /\ last.trace.rows_reph = << >>
       /\ \E r \in search(rows, tableDim, modelDim, last.input[1], last.input[2],
                          FALSE, last.input[4], last.input[5]) :
             r.outcome = last.outcome /\ r.results = last.result

C15_Witness ==
    /\ last.op = "search" /\ last.outcome = "ok"
    /\ last.input[1] = QLong /\ last.input[3] /\ last.input[5] = LlmError
    /\ Len(last.result) >= 2

\* the rows of the table that a channel query with this service sees for
\* the ticket k
ChunksOf(k, service) ==
    {i \in 1..Len(rows) : rows[i].issue_key = k
                          /\ (service \in {NULL, ""} \/ rows[i].service = service)}

\* a channel list for the query text qtext: every ticket once, with the
\* score and the snippet of a chunk of it that no other chunk of it is
\* closer than, best score first
OnePerTicket(channel, qtext, service) ==
    /\ \A i, j \in 1..Len(channel) : i # j => channel[i][1] # channel[j][1]
    /\ \A i \in 1..Len(channel) :
          \E c \in ChunksOf(channel[i][1], service) :
             /\ channel[i][3] = 0 - Dist(rows[c].embedding, encode(qtext))
             /\ channel[i][2] = Left(rows[c].text_chunk, SnippetLeft)
             /\ \A d \in ChunksOf(channel[i][1], service) :
                   Dist(rows[c].embedding, encode(qtext))
                       <= Dist(rows[d].embedding, encode(qtext))
    /\ \A i \in 1..(Len(channel) - 1) : channel[i][3] >= channel[i + 1][3]

\* C16: each channel query returns every issue_key at most once, with its
\* closest chunk, best score first; the list search returns holds every
\* issue_key at most once, also for tickets both channels returned
C16_OnePerTicket ==
    (last.op = "search" /\ last.outcome = "ok")
    => /\ OnePerTicket(last.trace.rows_orig, last.input[1], last.input[4])
       /\ last.trace.rows_reph # << >>
          => OnePerTicket(last.trace.rows_reph,
                          Rephrased(last.input[1], last.input[3], last.input[5]),
                          last.input[4])
       /\ \A i, j \in 1..Len(last.result) :
             i # j => last.result[i][1] # last.result[j][1]

C16_Witness ==
    /\ last.op = "search" /\ last.outcome = "ok"
    /\ Cardinality(ChunksOf("K2", last.input[4])) = 2
    /\ "K2" \in KeysOf(last.trace.rows_orig) /\ "K2" \in KeysOf(last.trace.rows_reph)
    /\ Cardinality({i \in 1..Len(last.result) : last.result[i][1] = "K2"}) = 1
    /\ Len(last.result) >= 2

\* C17: a search call, whatever its outcome, leaves the chunk rows of the
\* store as they were before the call
C17_SearchReadOnly == [][last'.op = "search" => rows' = rows]_vars

C17_Witness ==
    /\ last.op = "search" /\ last.outcome = "ok"
    /\ Len(last.result) >= 1
    /\ Len(rows) >= 2 /\ Len(rows) = last.countBefore

\* C18: under any interleaving of get_model calls of one process the
\* embedding model is constructed at most once and every call returns the
\* same handle
C18_Singleton ==
    /\ constructed <= 1
    /\ \A t, u \in Threads : (got[t] # 0 /\ got[u] # 0) => got[t] = got[u]

C20_EmbedsOnlyAbsent ==
    last.op = "reconcile"
    => \A i \in 1..Len(last.trace.encoded) :
          \E p \in 1..Len(_load_csv_rows(last.input[1])) :
             /\ _load_csv_rows(last.input[1])[p].text = last.trace.encoded[i]
             /\ _load_csv_rows(last.input[1])[p].issue_key
                    \notin KeysUpTo(rows, last.countBefore)

\* the fusion with the channels merged in the opposite order: the rephrased
\* channel first, then the raw channel
FuseSwapped(rows_orig, rows_reph, k) ==
    LET c1 == add_rows(<< >>, rows_reph, "score_reph")
        combined == add_rows(c1, rows_orig, "score_orig")
        results == [i \in 1..Len(combined) |->
                       <<combined[i].issue_key, combined[i].snippet, FinalScore(combined[i])>>]
    IN  Truncate(SortByScore(results), k)

\* C21: merging the raw channel before the rephrased channel and merging
\* them in the opposite order give the same ranked list: same issue_keys,
\* same order, same snippets, same scores
C21_FusionOrderFree ==
    (last.op = "search" /\ last.outcome = "ok")
    => last.result = FuseSwapped(last.trace.rows_orig, last.trace.rows_reph, last.trace.k)

\* the dict combined of a search after both add_rows calls
CombinedOf(rows_orig, rows_reph) ==
    LET c1 == add_rows(<< >>, rows_orig, "score_orig")
    IN  IF rows_reph # << >> THEN add_rows(c1, rows_reph, "score_reph") ELSE c1

\* the best score of the hits of issue_key in a channel list
BestScore(channel, issue_key) ==
    LET hits == {i \in 1..Len(channel) : channel[i][1] = issue_key}
    IN  channel[CHOOSE i \in hits : \A j \in hits : channel[i][3] >= channel[j][3]][3]

\* C22: after fusion, for every candidate and every channel that hit it, the
\* score tracked for the channel is the maximum of the scores of the
\* candidate's hits in that channel
C22_ChannelBestScore ==
    (last.op = "search" /\ last.outcome = "ok")
    => LET combined == CombinedOf(last.trace.rows_orig, last.trace.rows_reph)
       IN  \A i \in 1..Len(combined) :
              /\ combined[i].issue_key \in KeysOf(last.trace.rows_orig)
                 => combined[i].score_orig
                      = BestScore(last.trace.rows_orig, combined[i].issue_key)
              /\ combined[i].issue_key \in KeysOf(last.trace.rows_reph)
                 => combined[i].score_reph
                      = BestScore(last.trace.rows_reph, combined[i].issue_key)

\* the issue_keys in the order they were first retrieved: the raw channel's
\* hits, then the hits only the rephrased channel found
RetrievalOrder(rows_orig, rows_reph) ==
    [i \in 1..Len(rows_orig) |-> rows_orig[i][1]]
    \o SelectSeq([i \in 1..Len(rows_reph) |-> rows_reph[i][1]],
                 LAMBDA key : key \notin KeysOf(rows_orig))

\* position of a key in a sequence of distinct keys
PosIn(keys, key) == CHOOSE i \in 1..Len(keys) : keys[i] = key

\* C23: candidates of equal final score stand in the result in the order
\* they were first retrieved, and the result is the first topK of that
\* ranking: no candidate left out ranks before one that was kept
C23_StableTieBreak ==
    (last.op = "search" /\ last.outcome = "ok")
    => LET order == RetrievalOrder(last.trace.rows_orig, last.trace.rows_reph)
           combined == CombinedOf(last.trace.rows_orig, last.trace.rows_reph)
           res == last.result
       IN  /\ Len(res) = Min(last.trace.k, Len(order))
           /\ \A i, j \in 1..Len(res) :
                 (i < j /\ res[i][3] = res[j][3])
                 => PosIn(order, res[i][1]) < PosIn(order, res[j][1])
           /\ \A c \in 1..Len(combined), i \in 1..Len(res) :
                 combined[c].issue_key \notin KeysOf(res)
                 => \/ FinalScore(combined[c]) < res[i][3]
                    \/ /\ FinalScore(combined[c]) = res[i][3]
                       /\ PosIn(order, res[i][1]) < c

C23_Witness ==
    /\ last.op = "search" /\ last.outcome = "ok"
    /\ Len(last.result) = 2 /\ last.trace.k = 2
    /\ last.result[1][3] = last.result[2][3]
    /\ Len(RetrievalOrder(last.trace.rows_orig, last.trace.rows_reph)) = 3

\* the last n and the first n words of a chunk
LastWords(c, n) == SubSeq(c, Len(c) - n + 1, Len(c))
FirstWords(c, n) == SubSeq(c, 1, n)

\* C24: for 0 <= overlap < size every chunk has at most size words, and the
\* last overlap words of a chunk are the first overlap words of the next
C24_WindowShape ==
    (cOut # Pending /\ 0 <= cOverlap /\ cOverlap < cSize)
    => /\ \A i \in 1..Len(cOut.chunks) : Len(cOut.chunks[i]) <= cSize
       /\ \A i \in 1..(Len(cOut.chunks) - 1) :
             /\ Len(cOut.chunks[i]) >= cOverlap
             /\ Len(cOut.chunks[i + 1]) >= cOverlap
             /\ LastWords(cOut.chunks[i], cOverlap) = FirstWords(cOut.chunks[i + 1], cOverlap)

\* C25: a _merge_state application never empties a field that held a value
\* (an event with an empty value for the field leaves the stored value as it
\* was), and the event list never has more than 50 entries
C25_MergeKeepsData ==
    /\ Len(ticket.events) <= 50
    /\ mLast.op = "merge"
       => \A k \in Fields :
             mLast.prev.fields[k] # ""
             => /\ ticket.fields[k] # ""
                /\ mLast.flat[k] \in {"", " "} => ticket.fields[k] = mLast.prev.fields[k]

C25_Witness ==
    /\ mLast.op = "merge" /\ mLast.flat = FlatBlank
    /\ mLast.prev.fields["state"] = "done" /\ ticket.fields["state"] = "done"
    /\ Len(mLast.prev.events) = 50 /\ Len(ticket.events) = 50
    /\ ticket.events # mLast.prev.events

\* C26: two _merge_state applications in a row with the same event fields
\* append one entry only: the second leaves the event list as it is,
\* whatever time passed in between
C26_ConsecutiveDedup ==
    (mLast.op = "merge" /\ mLast.again) => ticket.events = mLast.prev.events

\* the rows of tbl that carry issue_key
RowsOfKey(tbl, issue_key) == {i \in 1..Len(tbl) : tbl[i].issue_key = issue_key}

\* the loaded staged pairs that carry issue_key
PairsOfKey(recs, issue_key) ==
    {p \in 1..Len(_load_csv_rows(recs)) : _load_csv_rows(recs)[p].issue_key = issue_key}

C28_OneRowPerStagedKey ==
    last.op = "reconcile"
    => \A i, j \in (last.countBefore + 1)..Len(rows) :
          rows[i].issue_key = rows[j].issue_key => i = j

\* C29: after the pipeline has ingested a document with non-empty text, at
\* least one row carries the document's issue_key, whatever was ingested
\* before
C29_TicketPresent ==
    (last.op = "pipeline" /\ last.outcome = "ok")
    => \A d \in 1..Len(last.input[1]) :
          Strip(last.input[1][d].text) # << >>
          => RowsOfKey(rows, last.input[1][d].issue_key) # {}

\* C30: chunk returns for every text and every pair (size, overlap), also
\* with overlap >= size and with a size below 1; the window start advances
\* by max(1, size - overlap) >= 1 words per chunk, so it yields
\* ceil(n / stride) chunks for n words, at most one per word
C30_ChunkTerminates ==
    cOut # Pending
    => /\ cOut.outcome = "ok"
       /\ Len(cOut.chunks) <= Len(cWords)
       /\ Len(cOut.chunks) = CeilDiv(Len(cWords), Max(1, cSize - cOverlap))

C30_Witness ==
    /\ cOut # Pending /\ cOut.outcome = "ok"
    /\ cOverlap > cSize /\ cSize = 1
    /\ Len(cWords) = MaxWords /\ Len(cOut.chunks) = MaxWords
====
